---- MODULE Spec2Model ----
(***************************************************************************)
(* Model of the Search operation of server/src/api/site.rs                 *)
(* (impl Perform for Search): remote resolution first, then credential     *)
(* check, type and sort parsing, dispatch over the requested type to the   *)
(* query builders, and assembly of the SearchResponse.                     *)
(***************************************************************************)
EXTENDS Integers, Sequences, FiniteSets, TLC

\* ------------------------------------------------------------------ bounds

\* Largest explicit page / limit value a request carries.
MaxPage == 2
MaxLimit == 2

\* ------------------------------------------------------------------ values

\* Option<T>
None == [some |-> FALSE]
Some(x) == [some |-> TRUE, v |-> x]

RemoteUrl == "https://remote.example/objects/42"
LocalUrl == "https://local.example/post/1"

\* Query strings a request may carry: plain text, a URI on a remote host,
\* a URI on the local host.
Queries == {"cats", RemoteUrl, LocalUrl}

\* The variants of SearchType and the strings a request may carry in type_.
SearchTypeNames == {"Posts", "Comments", "Communities", "Users", "Url", "All"}
TypeStrings == SearchTypeNames \cup {"posts", "Bogus"}

\* The variants of SortType used here and the strings a request may carry.
SortTypeNames == {"New", "TopAll"}
SortStrings == SortTypeNames \cup {"Bogus"}

\* Credentials a request may carry: none, a token of user 1, a bad token.
AuthValues == {None, Some("jwt_user1"), Some("jwt_invalid")}

\* struct Search
SearchRequests ==
  [q : Queries,
   type_ : TypeStrings,
   community_id : {None, Some(1)},
   sort : SortStrings,
   page : {None} \cup {Some(n) : n \in 1..MaxPage},
   limit : {None} \cup {Some(n) : n \in 1..MaxLimit},
   auth : AuthValues]

\* Result<T, LemmyError>
Ok(x) == [ok |-> TRUE, val |-> x]
Err(origin, msg) == [ok |-> FALSE, err |-> [origin |-> origin, msg |-> msg]]

\* SearchType::from_str, SortType::from_str: the variant named by the
\* string, or a parse error.
SearchType_from_str(s) ==
  IF s \in SearchTypeNames THEN Ok(s) ELSE Err("validation", "type")

SortType_from_str(s) ==
  IF s \in SortTypeNames THEN Ok(s) ELSE Err("validation", "sort")

\* get_user_from_jwt_opt: no credential gives no user; a credential is
\* decoded and its user read from storage; a bad credential is an error.
JwtUser(auth) ==
  IF ~auth.some THEN Ok(None)
  ELSE IF auth.v = "jwt_user1" THEN Ok(Some(1))
  ELSE Err("auth", "not_logged_in")

\* ------------------------------------------------------------------ store

\* The local data set. terms: the query strings the entity's text fields
\* contain; voters: the users who voted on it.
Row(kind, id, terms, url, community, nsfw, published, score, voters) ==
  [kind |-> kind, id |-> id, terms |-> terms, url |-> url,
   community_id |-> community, nsfw |-> nsfw, published |-> published,
   score |-> score, voters |-> voters]

Store ==
  {Row("post", 1, {"cats"}, RemoteUrl, 1, FALSE, 1, 5, {1}),
   Row("post", 2, {"cats", RemoteUrl}, LocalUrl, 2, TRUE, 2, 3, {}),
   Row("post", 3, {"cats", LocalUrl}, RemoteUrl, 1, FALSE, 3, 3, {}),
   Row("comment", 11, {"cats", RemoteUrl}, "", 1, FALSE, 1, 2, {1}),
   Row("comment", 12, {"cats"}, "", 2, FALSE, 2, 7, {}),
   Row("comment", 13, {LocalUrl}, "", 2, FALSE, 3, 1, {1}),
   Row("community", 21, {"cats", RemoteUrl}, "", 21, FALSE, 1, 4, {}),
   Row("community", 22, {"cats", LocalUrl}, "", 22, TRUE, 2, 9, {}),
   Row("user", 31, {"cats"}, "", 0, FALSE, 1, 1, {}),
   Row("user", 32, {"cats", RemoteUrl, LocalUrl}, "", 0, FALSE, 2, 6, {})}

\* ------------------------------------------------------------------ builders

\* The accumulated state of a query builder (create, then the chained
\* configuration calls).
QueryBuilder_create(kind) ==
  [kind |-> kind, sort |-> "Hot", show_nsfw |-> FALSE,
   for_community_id |-> None, search_term |-> None, url_search |-> None,
   my_user_id |-> None, page |-> None, limit |-> None]

\* The sort key of a row under a sort order.
SortKey(r, sort) ==
  CASE sort = "New" -> r.published
    [] sort = "TopAll" -> r.score
    [] OTHER -> r.score + r.published

\* r comes before s: greater key first, ties broken by id descending.
Before(r, s, sort) ==
  \/ SortKey(r, sort) > SortKey(s, sort)
  \/ SortKey(r, sort) = SortKey(s, sort) /\ r.id > s.id

RECURSIVE SortRows(_, _)
SortRows(S, sort) ==
  IF S = {} THEN <<>>
  ELSE LET first == CHOOSE r \in S : \A s \in S \ {r} : Before(r, s, sort)
       IN <<first>> \o SortRows(S \ {first}, sort)

\* page and limit to the window's size and offset.
limit_and_offset(page, limit) ==
  LET p == IF page.some THEN page.v ELSE 1
      l == IF limit.some THEN limit.v ELSE 10
  IN [limit |-> l, offset |-> l * (p - 1)]

\* What a row looks like to the viewer the builder was given.
View(r, b) ==
  [kind |-> r.kind, id |-> r.id,
   my_vote |-> IF b.my_user_id.some /\ b.my_user_id.v \in r.voters
               THEN Some(1) ELSE None]

Matches(r, b) ==
  /\ r.kind = b.kind
  /\ b.search_term.some => b.search_term.v \in r.terms
  /\ b.url_search.some => r.url = b.url_search.v
  /\ b.for_community_id.some => r.community_id = b.for_community_id.v
  /\ ~b.show_nsfw => ~r.nsfw

\* list(): the filtered, sorted, paginated read.
List(b) ==
  LET sorted == SortRows({r \in Store : Matches(r, b)}, b.sort)
      w == limit_and_offset(b.page, b.limit)
      lo == w.offset + 1
      hi == IF w.offset + w.limit < Len(sorted) THEN w.offset + w.limit
            ELSE Len(sorted)
  IN [i \in 1..(IF hi >= lo THEN hi - lo + 1 ELSE 0) |->
        View(sorted[lo + i - 1], b)]

\* The outcomes of blocking(pool, || builder.list()).await: the rows, a
\* storage error from list(), or an error of the blocking call itself.
BlockingOutcomes(b) ==
  {Ok(List(b)), Err("builder", "backend"), Err("builder", "blocking")}

\* ------------------------------------------------------------------ resolver

\* A query string that addresses an object on a remote host.
IsRemoteId(q) == q = RemoteUrl

\* struct SearchResponse
SearchResponse(t, c, p, co, u) ==
  [type_ |-> t, comments |-> c, posts |-> p, communities |-> co, users |-> u]

\* The entity a remote fetch materialised, as a view.
Materialized(kind) == [kind |-> kind, id |-> 99, my_vote |-> None]

\* The responses the resolver can build from a fetched object: exactly the
\* bucket of the object's kind holds it. The resolver is given the query
\* string alone, so the type it writes does not come from the request.
ResolvedResponses ==
  {SearchResponse(t,
     IF k = "comment" THEN <<Materialized(k)>> ELSE <<>>,
     IF k = "post" THEN <<Materialized(k)>> ELSE <<>>,
     IF k = "community" THEN <<Materialized(k)>> ELSE <<>>,
     IF k = "user" THEN <<Materialized(k)>> ELSE <<>>) :
   t \in SearchTypeNames, k \in {"post", "comment", "community", "user"}}

\* search_by_apub_id(q, client, pool): not a remote identifier is an error
\* without a fetch; otherwise the fetch succeeds and the object is
\* materialised, or fetching, parsing or materialising fails.
ResolverOutcomes(q) ==
  IF ~IsRemoteId(q) THEN {Err("resolver", "not_remote")}
  ELSE {Ok(r) : r \in ResolvedResponses} \cup {Err("resolver", "fetch_failed")}

\* ------------------------------------------------------------------ state

VARIABLES
  data,         \* the Search request being performed
  pc,           \* where perform is
  resolution,   \* what search_by_apub_id returned
  user_id,      \* the requester's id, once the credential was checked
  type_,        \* the parsed SearchType
  sort,         \* the parsed SortType
  posts, comments, communities, users,   \* the local result vectors
  running,      \* the builder a blocking call is executing
  result,       \* what perform returned
  log           \* the effects of the request so far, in order: the
                \* resolver's call, fetch and materialisation, the credential
                \* check and lookup, the parses, each builder's start and
                \* end or failure, the assembly

vars == <<data, pc, resolution, user_id, type_, sort, posts, comments,
          communities, users, running, result, log>>

buckets == <<posts, comments, communities, users>>

Ev(ev, kind) == [ev |-> ev, kind |-> kind]

Init ==
  /\ data \in SearchRequests
  /\ pc = "resolve"
  /\ resolution = None
  /\ user_id = None
  /\ type_ = ""
  /\ sort = ""
  /\ posts = <<>>
  /\ comments = <<>>
  /\ communities = <<>>
  /\ users = <<>>
  /\ running = None
  /\ result = None
  /\ log = <<>>

\* return from perform with r
Return(r) ==
  /\ result' = Some(r)
  /\ pc' = "done"

\* ------------------------------------------------------------------ steps

\* search_by_apub_id(&data.q, &client, pool).await
SearchByApubId ==
  /\ pc = "resolve"
  /\ \E o \in ResolverOutcomes(data.q) :
       /\ resolution' = Some(o)
       /\ log' = log \o <<Ev("resolve", "")>>
                     \o (IF IsRemoteId(data.q) THEN <<Ev("fetch", "")>> ELSE <<>>)
                     \o (IF o.ok THEN <<Ev("materialize", "")>> ELSE <<>>)
  /\ pc' = "match_resolution"
  /\ UNCHANGED <<data, user_id, type_, sort, buckets, running, result>>

\* Mutant: the Ok arm does not return, the request goes on to local search.
MatchResolution_NoReturn ==
  /\ pc = "match_resolution"
  /\ pc' = "auth"
  /\ UNCHANGED <<data, resolution, user_id, type_, sort, buckets, running,
                 result, log>>

\* Mutant: the resolver's error is propagated (search_by_apub_id(..).await?).
MatchResolution_Propagates ==
  /\ pc = "match_resolution"
  /\ Return(resolution.v)
  /\ UNCHANGED <<data, resolution, user_id, type_, sort, buckets, running, log>>

\* match ... { Ok(r) => return Ok(r), Err(e) => debug!(...) }
MatchResolution ==
  /\ pc = "match_resolution"
  /\ IF resolution.v.ok
     THEN Return(resolution.v)
     ELSE /\ pc' = "auth"
          /\ UNCHANGED result
  /\ UNCHANGED <<data, resolution, user_id, type_, sort, buckets, running, log>>

\* Mutant: a bad credential is taken as no credential
\* (get_user_from_jwt_opt(..).await.ok().flatten()).
GetUserFromJwtOpt_IgnoresError ==
  /\ pc = "auth"
  /\ LET u == JwtUser(data.auth)
     IN /\ log' = log \o <<Ev("auth", "")>>
                      \o (IF u.ok /\ u.val.some THEN <<Ev("cred_lookup", "")>>
                          ELSE <<>>)
        /\ user_id' = IF u.ok THEN u.val ELSE None
        /\ pc' = "parse_type"
        /\ UNCHANGED result
  /\ UNCHANGED <<data, resolution, type_, sort, buckets, running>>

\* let user = get_user_from_jwt_opt(&data.auth, pool).await?;
\* let user_id = user.map(|u| u.id);
GetUserFromJwtOpt ==
  /\ pc = "auth"
  /\ LET u == JwtUser(data.auth)
     IN /\ log' = log \o <<Ev("auth", "")>>
                      \o (IF u.ok /\ u.val.some THEN <<Ev("cred_lookup", "")>>
                          ELSE <<>>)
        /\ IF u.ok
           THEN /\ user_id' = u.val
                /\ pc' = "parse_type"
                /\ UNCHANGED result
           ELSE /\ Return(u)
                /\ UNCHANGED user_id
  /\ UNCHANGED <<data, resolution, type_, sort, buckets, running>>

\* let type_ = SearchType::from_str(&data.type_)?;
ParseType ==
  /\ pc = "parse_type"
  /\ LET t == SearchType_from_str(data.type_)
     IN /\ log' = Append(log, Ev("parse_type", ""))
        /\ IF t.ok
           THEN /\ type_' = t.val
                /\ pc' = "parse_sort"
                /\ UNCHANGED result
           ELSE /\ Return(t)
                /\ UNCHANGED type_
  /\ UNCHANGED <<data, resolution, user_id, sort, buckets, running>>

\* the four Vec::new() and let sort = SortType::from_str(&data.sort)?;
ParseSort ==
  /\ pc = "parse_sort"
  /\ posts' = <<>>
  /\ comments' = <<>>
  /\ communities' = <<>>
  /\ users' = <<>>
  /\ LET s == SortType_from_str(data.sort)
     IN /\ log' = Append(log, Ev("parse_sort", ""))
        /\ IF s.ok
           THEN /\ sort' = s.val
                /\ pc' = "dispatch"
                /\ UNCHANGED result
           ELSE /\ Return(s)
                /\ UNCHANGED sort
  /\ UNCHANGED <<data, resolution, user_id, type_, running>>

\* ------------------------------------------------------------------ arms

\* The builder chains of the match arms. d: the request, s: the parsed
\* sort, u: the requester's id.
PostsArmQuery(d, s, u) ==
  [QueryBuilder_create("post") EXCEPT
     !.sort = s, !.show_nsfw = TRUE, !.for_community_id = d.community_id,
     !.search_term = Some(d.q), !.my_user_id = u,
     !.page = d.page, !.limit = d.limit]

CommentsArmQuery(d, s, u) ==
  [QueryBuilder_create("comment") EXCEPT
     !.sort = s, !.search_term = Some(d.q), !.my_user_id = u,
     !.page = d.page, !.limit = d.limit]

CommunitiesArmQuery(d, s, u) ==
  [QueryBuilder_create("community") EXCEPT
     !.sort = s, !.search_term = Some(d.q),
     !.page = d.page, !.limit = d.limit]

UsersArmQuery(d, s, u) ==
  [QueryBuilder_create("user") EXCEPT
     !.sort = s, !.search_term = Some(d.q),
     !.page = d.page, !.limit = d.limit]

\* Mutant: the All arm's post builder is not scoped to the community.
AllPostsQuery_NoCommunity(d, s, u) ==
  [QueryBuilder_create("post") EXCEPT
     !.sort = s, !.show_nsfw = TRUE,
     !.search_term = Some(d.q), !.my_user_id = u,
     !.page = d.page, !.limit = d.limit]

AllPostsQuery(d, s, u) ==
  [QueryBuilder_create("post") EXCEPT
     !.sort = s, !.show_nsfw = TRUE, !.for_community_id = d.community_id,
     !.search_term = Some(d.q), !.my_user_id = u,
     !.page = d.page, !.limit = d.limit]

AllCommentsQuery(d, s, u) ==
  [QueryBuilder_create("comment") EXCEPT
     !.sort = s, !.search_term = Some(d.q), !.my_user_id = u,
     !.page = d.page, !.limit = d.limit]

AllCommunitiesQuery(d, s, u) ==
  [QueryBuilder_create("community") EXCEPT
     !.sort = s, !.search_term = Some(d.q),
     !.page = d.page, !.limit = d.limit]

AllUsersQuery(d, s, u) ==
  [QueryBuilder_create("user") EXCEPT
     !.sort = s, !.search_term = Some(d.q),
     !.page = d.page, !.limit = d.limit]

UrlArmQuery(d, s, u) ==
  [QueryBuilder_create("post") EXCEPT
     !.sort = s, !.show_nsfw = TRUE, !.for_community_id = d.community_id,
     !.url_search = Some(d.q),
     !.page = d.page, !.limit = d.limit]

\* blocking(pool, move |conn| b.list()): the builder starts executing.
Blocking(b, wait) ==
  /\ running' = Some(b)
  /\ log' = Append(log, [ev |-> "start", kind |-> b.kind, query |-> b])
  /\ pc' = wait
  /\ UNCHANGED <<data, resolution, user_id, type_, buckets, result>>

\* Mutant: a failed blocking call is swallowed, perform goes on with the
\* bucket left empty.
Await_Swallow(o, next) ==
  /\ running' = None
  /\ log' = Append(log, IF o.ok
                         THEN [ev |-> "end", kind |-> running.v.kind,
                               rows |-> o.val]
                         ELSE [ev |-> "fail", kind |-> running.v.kind,
                               err |-> o.err])
  /\ pc' = next
  /\ UNCHANGED result
  /\ UNCHANGED <<data, resolution, user_id, type_, sort>>

\* .await??: the blocking call ended with o; an error returns from
\* perform, rows go on to next.
Await(o, next) ==
  /\ running' = None
  /\ log' = Append(log, IF o.ok
                         THEN [ev |-> "end", kind |-> running.v.kind,
                               rows |-> o.val]
                         ELSE [ev |-> "fail", kind |-> running.v.kind,
                               err |-> o.err])
  /\ IF o.ok
     THEN /\ pc' = next
          /\ UNCHANGED result
     ELSE Return(o)
  /\ UNCHANGED <<data, resolution, user_id, type_, sort>>

\* SearchType::Posts => { posts = blocking(...).await??; }
PostsArm ==
  /\ pc = "dispatch" /\ type_ = "Posts"
  /\ Blocking(PostsArmQuery(data, sort, user_id), "await_posts")
  /\ UNCHANGED sort

PostsArmAwait ==
  /\ pc = "await_posts"
  /\ \E o \in BlockingOutcomes(running.v) :
       /\ Await(o, "assemble")
       /\ posts' = IF o.ok THEN o.val ELSE posts
  /\ UNCHANGED <<comments, communities, users>>

\* SearchType::Comments => { comments = blocking(...).await??; }
CommentsArm ==
  /\ pc = "dispatch" /\ type_ = "Comments"
  /\ Blocking(CommentsArmQuery(data, sort, user_id), "await_comments")
  /\ UNCHANGED sort

CommentsArmAwait ==
  /\ pc = "await_comments"
  /\ \E o \in BlockingOutcomes(running.v) :
       /\ Await(o, "assemble")
       /\ comments' = IF o.ok THEN o.val ELSE comments
  /\ UNCHANGED <<posts, communities, users>>

\* SearchType::Communities => { communities = blocking(...).await??; }
CommunitiesArm ==
  /\ pc = "dispatch" /\ type_ = "Communities"
  /\ Blocking(CommunitiesArmQuery(data, sort, user_id), "await_communities")
  /\ UNCHANGED sort

\* Mutant: the communities arm stores its rows in users.
CommunitiesArmAwait_IntoUsers ==
  /\ pc = "await_communities"
  /\ \E o \in BlockingOutcomes(running.v) :
       /\ Await(o, "assemble")
       /\ users' = IF o.ok THEN o.val ELSE users
  /\ UNCHANGED <<posts, comments, communities>>

CommunitiesArmAwait ==
  /\ pc = "await_communities"
  /\ \E o \in BlockingOutcomes(running.v) :
       /\ Await(o, "assemble")
       /\ communities' = IF o.ok THEN o.val ELSE communities
  /\ UNCHANGED <<posts, comments, users>>

\* SearchType::Users => { users = blocking(...).await??; }
UsersArm ==
  /\ pc = "dispatch" /\ type_ = "Users"
  /\ Blocking(UsersArmQuery(data, sort, user_id), "await_users")
  /\ UNCHANGED sort

UsersArmAwait ==
  /\ pc = "await_users"
  /\ \E o \in BlockingOutcomes(running.v) :
       /\ Await(o, "assemble")
       /\ users' = IF o.ok THEN o.val ELSE users
  /\ UNCHANGED <<posts, comments, communities>>

\* SearchType::Url => { posts = blocking(...url_search(q)...).await??; }
UrlArm ==
  /\ pc = "dispatch" /\ type_ = "Url"
  /\ Blocking(UrlArmQuery(data, sort, user_id), "await_url")
  /\ UNCHANGED sort

\* Mutant: the Url arm stores its rows in comments.
UrlArmAwait_IntoComments ==
  /\ pc = "await_url"
  /\ \E o \in BlockingOutcomes(running.v) :
       /\ Await(o, "assemble")
       /\ comments' = IF o.ok THEN o.val ELSE comments
  /\ UNCHANGED <<posts, communities, users>>

UrlArmAwait ==
  /\ pc = "await_url"
  /\ \E o \in BlockingOutcomes(running.v) :
       /\ Await(o, "assemble")
       /\ posts' = IF o.ok THEN o.val ELSE posts
  /\ UNCHANGED <<comments, communities, users>>

\* SearchType::All => { posts = ...; comments = ...; communities = ...;
\* users = ...; }: the four builders one after the other, the sort string
\* parsed again before the second, third and fourth.
AllArmPosts ==
  /\ pc = "dispatch" /\ type_ = "All"
  /\ Blocking(AllPostsQuery(data, sort, user_id), "all_await_posts")
  /\ UNCHANGED sort

AllArmPostsAwait ==
  /\ pc = "all_await_posts"
  /\ \E o \in BlockingOutcomes(running.v) :
       /\ Await(o, "all_comments")
       /\ posts' = IF o.ok THEN o.val ELSE posts
  /\ UNCHANGED <<comments, communities, users>>

AllArmComments ==
  /\ pc = "all_comments"
  /\ LET s == SortType_from_str(data.sort)
     IN IF s.ok
        THEN /\ sort' = s.val
             /\ Blocking(AllCommentsQuery(data, s.val, user_id),
                         "all_await_comments")
        ELSE /\ Return(s)
             /\ UNCHANGED <<data, resolution, user_id, type_, sort, buckets,
                            running, log>>

AllArmCommentsAwait ==
  /\ pc = "all_await_comments"
  /\ \E o \in BlockingOutcomes(running.v) :
       /\ Await(o, "all_communities")
       /\ comments' = IF o.ok THEN o.val ELSE comments
  /\ UNCHANGED <<posts, communities, users>>

AllArmCommunities ==
  /\ pc = "all_communities"
  /\ LET s == SortType_from_str(data.sort)
     IN IF s.ok
        THEN /\ sort' = s.val
             /\ Blocking(AllCommunitiesQuery(data, s.val, user_id),
                         "all_await_communities")
        ELSE /\ Return(s)
             /\ UNCHANGED <<data, resolution, user_id, type_, sort, buckets,
                            running, log>>

AllArmCommunitiesAwait ==
  /\ pc = "all_await_communities"
  /\ \E o \in BlockingOutcomes(running.v) :
       /\ Await(o, "all_users")
       /\ communities' = IF o.ok THEN o.val ELSE communities
  /\ UNCHANGED <<posts, comments, users>>

\* Mutant: the users builder is started and not awaited.
AllArmUsers_NotAwaited ==
  /\ pc = "all_users"
  /\ sort' = SortType_from_str(data.sort).val
  /\ Blocking(AllUsersQuery(data, sort', user_id), "assemble")

AllArmUsers ==
  /\ pc = "all_users"
  /\ LET s == SortType_from_str(data.sort)
     IN IF s.ok
        THEN /\ sort' = s.val
             /\ Blocking(AllUsersQuery(data, s.val, user_id),
                         "all_await_users")
        ELSE /\ Return(s)
             /\ UNCHANGED <<data, resolution, user_id, type_, sort, buckets,
                            running, log>>

AllArmUsersAwait ==
  /\ pc = "all_await_users"
  /\ \E o \in BlockingOutcomes(running.v) :
       /\ Await(o, "assemble")
       /\ users' = IF o.ok THEN o.val ELSE users
  /\ UNCHANGED <<posts, comments, communities>>

\* Ok(SearchResponse { type_: data.type_.to_owned(), comments, posts,
\* communities, users })
Assemble ==
  /\ pc = "assemble"
  /\ Return(Ok(SearchResponse(data.type_, comments, posts, communities, users)))
  /\ log' = Append(log, Ev("assemble", ""))
  /\ UNCHANGED <<data, resolution, user_id, type_, sort, buckets, running>>

Next ==
  \/ SearchByApubId
  \/ MatchResolution
  \/ GetUserFromJwtOpt
  \/ ParseType
  \/ ParseSort
  \/ PostsArm
  \/ PostsArmAwait
  \/ CommentsArm
  \/ CommentsArmAwait
  \/ CommunitiesArm
  \/ CommunitiesArmAwait
  \/ UsersArm
  \/ UsersArmAwait
  \/ AllArmPosts
  \/ AllArmPostsAwait
  \/ AllArmComments
  \/ AllArmCommentsAwait
  \/ AllArmCommunities
  \/ AllArmCommunitiesAwait
  \/ AllArmUsers
  \/ AllArmUsersAwait
  \/ UrlArm
  \/ UrlArmAwait
  \/ Assemble

Spec == Init /\ [][Next]_vars

\* ------------------------------------------------------------------ properties

Done == pc = "done"
Succeeded == Done /\ result.v.ok
Failed == Done /\ ~result.v.ok
Response == result.v.val

\* remote resolution returned a response / an error
Resolved == resolution.some /\ resolution.v.ok
Unresolved == resolution.some /\ ~resolution.v.ok

\* the positions of the log holding an event ev
At(ev) == {i \in DOMAIN log : log[i].ev = ev}
\* the positions of the log holding an event ev of builder kind
AtKind(ev, kind) == {i \in At(ev) : log[i].kind = kind}

BuilderKinds == {"post", "comment", "community", "user"}

\* the builder and the bucket of a single-type request
BuilderOf(t) ==
  CASE t = "Posts" -> "post"
    [] t = "Url" -> "post"
    [] t = "Comments" -> "comment"
    [] t = "Communities" -> "community"
    [] t = "Users" -> "user"

BucketOf(r, kind) ==
  CASE kind = "post" -> r.posts
    [] kind = "comment" -> r.comments
    [] kind = "community" -> r.communities
    [] kind = "user" -> r.users

\* network and storage accesses of the request so far
Accesses ==
  At("fetch") \cup At("materialize") \cup At("cred_lookup") \cup At("start")

\* C1: a request whose sort string does not parse fails with a validation
\* error, and when it has failed no remote fetch, no credential lookup and
\* no query builder has been performed for it.
C1_BadSortFailsBeforeAnyAccess ==
  (Done /\ ~SortType_from_str(data.sort).ok) =>
    /\ ~result.v.ok
    /\ result.v.err.origin = "validation"
    /\ Accesses = {}

\* C2: remote resolution is the first thing every request does, whatever
\* its type, and once it has succeeded its response is what the request
\* returns: no credential check, no parse and no query builder ever runs in
\* that request.
C2_ResolvedShortCircuits ==
  /\ log # <<>> => log[1].ev = "resolve"
  /\ pc # "resolve" => At("resolve") = {1}
  /\ Resolved =>
       /\ pc \in {"match_resolution", "done"}
       /\ At("start") = {}
       /\ running = None
       /\ Done => result = resolution

C2_Witness ==
  /\ Succeeded /\ Resolved
  /\ data.type_ = "Posts"
  /\ Response.communities # <<>>
  /\ \E r \in Store : r.kind = "post" /\ data.q \in r.terms

\* C3: a failure of remote resolution is never the outcome of the request:
\* after it the request goes on to the credential check of the local path,
\* and an error the request ends with comes from authentication,
\* validation or a query builder.
C3_ResolverFailureFallsThrough ==
  /\ Unresolved =>
       \/ pc = "match_resolution" /\ result = None
       \/ pc = "auth" /\ result = None
       \/ At("auth") # {}
  /\ Failed => result.v.err.origin \in {"auth", "validation", "builder"}

C3_Witness ==
  /\ Succeeded
  /\ Unresolved /\ resolution.v.err.msg = "fetch_failed"
  /\ At("end") # {}

\* C4 as stated: every successful response to a request with type Url has
\* empty comments, communities and users buckets, on every path.
C4_UrlOnlyPostsEveryPath ==
  (Succeeded /\ data.type_ = "Url") =>
    /\ Response.comments = <<>>
    /\ Response.communities = <<>>
    /\ Response.users = <<>>

\* C4 amended: a successful response to a request with type Url produced by
\* the local search path (remote resolution failed) has empty comments,
\* communities and users buckets; a response produced by remote resolution
\* is the resolver's, whatever bucket it fills.
C4_UrlOnlyPostsLocalPath ==
  (Succeeded /\ data.type_ = "Url") =>
    IF Unresolved
    THEN /\ Response.comments = <<>>
         /\ Response.communities = <<>>
         /\ Response.users = <<>>
    ELSE result = resolution

C4_Witness ==
  /\ Succeeded /\ data.type_ = "Url" /\ Unresolved
  /\ Response.posts # <<>>
  /\ IsRemoteId(data.q)

\* C5: every successful response carries the request's type string, on the
\* local path and on the resolved path.
C5_TypeEchoedEveryPath ==
  Succeeded => Response.type_ = data.type_

\* C6: a request whose type string or sort string does not parse ends in a
\* validation error, never in a response, whatever its query string,
\* credential and remote resolution outcome.
C6_MalformedEndsInValidationError ==
  (Done /\ (~SearchType_from_str(data.type_).ok
            \/ ~SortType_from_str(data.sort).ok)) =>
    /\ ~result.v.ok
    /\ result.v.err.origin = "validation"

\* the request is a single-type request that went down the local path
SingleTypeLocal ==
  /\ Unresolved
  /\ data.type_ \in {"Posts", "Comments", "Communities", "Users", "Url"}

\* C7: a successful single-type request on the local path ran exactly one
\* query builder, the one of its type (the post builder for Posts and Url),
\* and its response holds that builder's rows in the matching bucket and
\* empty sequences in the other three.
C7_SingleTypeRunsOneBuilder ==
  (Succeeded /\ SingleTypeLocal) =>
    LET kind == BuilderOf(data.type_)
    IN /\ Cardinality(At("start")) = 1
       /\ At("start") = AtKind("start", kind)
       /\ Cardinality(At("end")) = 1
       /\ \A i \in At("end") :
            /\ log[i].kind = kind
            /\ BucketOf(Response, kind) = log[i].rows
       /\ \A k \in BuilderKinds \ {kind} : BucketOf(Response, k) = <<>>

C7_Witness ==
  /\ Succeeded /\ SingleTypeLocal
  /\ data.type_ = "Communities"
  /\ Response.communities # <<>>

\* the request is an All request that went down the local path
AllLocal == Unresolved /\ data.type_ = "All"

\* C8: in an All request on the local path, a failure of any of the four
\* builders ends the request with that builder's error and without a
\* response; a response exists only when all four builders succeeded.
C8_AllFailsAsAWhole ==
  AllLocal =>
    /\ \A i \in At("fail") :
         /\ Failed
         /\ result.v.err = log[i].err
    /\ Succeeded =>
         /\ At("fail") = {}
         /\ \A k \in BuilderKinds : Cardinality(AtKind("end", k)) = 1

C8_Witness ==
  /\ AllLocal /\ Failed
  /\ AtKind("end", "post") # {}
  /\ AtKind("end", "comment") # {}
  /\ AtKind("fail", "community") # {}

\* what the single-type request with the same query, sort, page, limit,
\* community scope and requester returns in its bucket
SingleTypeRows(t) ==
  LET s == SortType_from_str(data.sort).val
      u == JwtUser(data.auth).val
  IN CASE t = "Posts" -> List(PostsArmQuery(data, s, u))
       [] t = "Comments" -> List(CommentsArmQuery(data, s, u))
       [] t = "Communities" -> List(CommunitiesArmQuery(data, s, u))
       [] t = "Users" -> List(UsersArmQuery(data, s, u))

\* C9: each bucket of a successful All response on the local path equals
\* what the single-type request with the same parameters returns from the
\* same data set, and holds rows of its own kind only.
C9_AllBucketsEqualSingleType ==
  (Succeeded /\ AllLocal) =>
    /\ Response.posts = SingleTypeRows("Posts")
    /\ Response.comments = SingleTypeRows("Comments")
    /\ Response.communities = SingleTypeRows("Communities")
    /\ Response.users = SingleTypeRows("Users")
    /\ \A k \in BuilderKinds :
         \A i \in DOMAIN BucketOf(Response, k) :
           BucketOf(Response, k)[i].kind = k

C9_Witness ==
  /\ Succeeded /\ AllLocal
  /\ data.community_id.some
  /\ Len(Response.posts) >= 2
  /\ Response.comments # <<>>
  /\ Response.communities # <<>>
  /\ Response.users # <<>>
  /\ \E i \in DOMAIN Response.posts : Response.posts[i].my_vote.some

\* C10: in an All request the response is assembled only after the posts,
\* comments, communities and users queries have all completed, and after a
\* builder has failed no builder is started.
C10_AllJoinsBeforeAssembling ==
  data.type_ = "All" =>
    /\ \A i \in At("assemble") :
         /\ running = None
         /\ \A k \in BuilderKinds : \E j \in AtKind("end", k) : j < i
    /\ pc = "assemble" =>
         /\ running = None
         /\ \A k \in BuilderKinds : AtKind("end", k) # {}
    /\ \A i \in At("fail") : \A j \in At("start") : j < i

C10_Witness ==
  /\ data.type_ = "All"
  /\ At("fail") # {}
  /\ AtKind("start", "comment") # {}
  /\ AtKind("start", "community") = {}

\* C11: the credential is checked on the local path only and before the
\* type and sort strings are parsed: a request whose remote resolution
\* succeeded never checks it, and after a failed resolution a request with
\* a bad credential ends with the authentication error with no parse done
\* and no query builder started, whatever its type string.
C11_CredentialCheckedOnLocalPathFirst ==
  /\ Resolved => At("auth") = {} /\ At("cred_lookup") = {}
  /\ \A i \in At("auth") :
       /\ Unresolved
       /\ \A j \in At("parse_type") \cup At("parse_sort") \cup At("start") :
            i < j
  /\ (Done /\ Unresolved /\ ~JwtUser(data.auth).ok) =>
       /\ ~result.v.ok
       /\ result.v.err = JwtUser(data.auth).err
       /\ At("parse_type") \cup At("parse_sort") \cup At("start") = {}

C11_Witness ==
  /\ Failed /\ Unresolved
  /\ ~JwtUser(data.auth).ok
  /\ result.v.err.origin = "auth"
  /\ data.type_ = "Communities"
  /\ At("auth") # {}

====
